---------------------------- MODULE Spec2Model ----------------------------
(***************************************************************************)
(* Model of the HSK vocabulary game engine (src/src/hsk_bot/game.py,       *)
(* src/src/hsk_bot/models.py).                                             *)
(*                                                                         *)
(* Python strings are modelled as sequences of one-character strings so    *)
(* that lower(), strip(), split(), replace(), startswith() and endswith()  *)
(* are computed and not assumed.  A non-ASCII character is written as one  *)
(* element "Uxxxx" (its code point).                                       *)
(*                                                                         *)
(* game.py refers to PracticeMode.PINYIN_TO_ENGLISH,                       *)
(* PracticeMode.CHARACTERS_TO_ENGLISH and to Word.part_of_speech; the      *)
(* models.py under src/ declares the older two-member PracticeMode and a   *)
(* Word without part_of_speech.  The three-member enumeration and the      *)
(* part_of_speech field that game.py and bot.py are written against are    *)
(* taken from the specification (section 3: QuizDirection, Word).          *)
(***************************************************************************)
EXTENDS Integers, Sequences, FiniteSets, TLC

VARIABLES
    active_sessions,  \* VocabularyGame.active_sessions: dict user_id -> GameSession
    files,            \* the vocabulary directory: level -> the source of hsk-<level>.csv
    last,             \* the last call made into the engine and what it returned or raised
    verdicts,         \* history: per session, the verdicts check_answer returned (n) and
                      \* how many of them were true (c)
    threads           \* the check_answer calls in progress on threads of their own

vars == <<active_sessions, files, last, verdicts, threads>>

----------------------------------------------------------------------------
(* Bounds of the model *)

\* check_answer is not called on a session that already counts MaxAttempts attempts
MaxAttempts == 2
\* the user identifiers that call into the engine
Users == {101, 102}

----------------------------------------------------------------------------
(* Python str operations *)

UpperCase == <<"A", "B", "C", "D", "E", "F", "G", "H", "I", "J", "K", "L", "M",
               "N", "O", "P", "Q", "R", "S", "T", "U", "V", "W", "X", "Y", "Z">>
LowerCase == <<"a", "b", "c", "d", "e", "f", "g", "h", "i", "j", "k", "l", "m",
               "n", "o", "p", "q", "r", "s", "t", "u", "v", "w", "x", "y", "z">>
WhiteSpace == {" "}

\* one character of str.lower()
LowerOf == [c \in {UpperCase[i] : i \in 1..Len(UpperCase)} |->
                LowerCase[CHOOSE i \in 1..Len(UpperCase) : UpperCase[i] = c]]
lower_char(c) == IF c \in DOMAIN LowerOf THEN LowerOf[c] ELSE c

\* str.lower()
str_lower(s) == [i \in 1..Len(s) |-> lower_char(s[i])]

RECURSIVE str_lstrip(_)
str_lstrip(s) ==
    IF s # <<>> /\ Head(s) \in WhiteSpace THEN str_lstrip(Tail(s)) ELSE s

RECURSIVE str_rstrip(_)
str_rstrip(s) ==
    IF s # <<>> /\ s[Len(s)] \in WhiteSpace
    THEN str_rstrip(SubSeq(s, 1, Len(s) - 1))
    ELSE s

\* str.strip()
str_strip(s) == str_rstrip(str_lstrip(s))

\* str.find(sub) + 1: the first position where sub occurs in s, 0 when it does not
str_find(s, sub) ==
    LET hits == {i \in 1..(Len(s) - Len(sub) + 1) : SubSeq(s, i, i + Len(sub) - 1) = sub}
    IN  IF hits = {} THEN 0 ELSE CHOOSE i \in hits : \A j \in hits : i <= j

\* str.split(sep) for a non-empty separator: empty pieces are kept
RECURSIVE str_split_sep(_, _)
str_split_sep(s, sep) ==
    LET i == str_find(s, sep)
    IN  IF i = 0
        THEN <<s>>
        ELSE <<SubSeq(s, 1, i - 1)>> \o str_split_sep(SubSeq(s, i + Len(sep), Len(s)), sep)

\* str.split(): pieces between runs of whitespace, no empty piece
RECURSIVE str_split(_)
str_split(s) ==
    LET t == str_lstrip(s)
        ws == {i \in 1..Len(t) : t[i] \in WhiteSpace}
        e == IF ws = {} THEN Len(t) + 1 ELSE CHOOSE i \in ws : \A j \in ws : i <= j
    IN  IF t = <<>>
        THEN <<>>
        ELSE <<SubSeq(t, 1, e - 1)>> \o str_split(SubSeq(t, e, Len(t)))

\* sep.join(parts)
RECURSIVE str_join(_, _)
str_join(sep, parts) ==
    IF parts = <<>> THEN <<>>
    ELSE IF Len(parts) = 1 THEN parts[1]
    ELSE parts[1] \o sep \o str_join(sep, Tail(parts))

\* str.startswith(prefix), str.endswith(suffix)
str_startswith(s, prefix) ==
    Len(s) >= Len(prefix) /\ SubSeq(s, 1, Len(prefix)) = prefix
str_endswith(s, suffix) ==
    Len(s) >= Len(suffix) /\ SubSeq(s, Len(s) - Len(suffix) + 1, Len(s)) = suffix

\* str.replace(old, new, 1)
str_replace_first(s, old, new) ==
    LET i == str_find(s, old)
    IN  IF i = 0 THEN s
        ELSE SubSeq(s, 1, i - 1) \o new \o SubSeq(s, i + Len(old), Len(s))

\* str.replace(old, new), old not empty
RECURSIVE str_replace(_, _, _)
str_replace(s, old, new) ==
    LET i == str_find(s, old)
    IN  IF i = 0 THEN s
        ELSE SubSeq(s, 1, i - 1) \o new
             \o str_replace(SubSeq(s, i + Len(old), Len(s)), old, new)

\* the elements of a sequence
Range(seq) == {seq[i] : i \in 1..Len(seq)}

\* the subsequence of the elements that satisfy Keep, in order
RECURSIVE SelectIn(_, _)
SelectIn(seq, keep) ==
    IF seq = <<>> THEN <<>>
    ELSE (IF Head(seq) \in keep THEN <<Head(seq)>> ELSE <<>>) \o SelectIn(Tail(seq), keep)

----------------------------------------------------------------------------
(* Text used by the code and by the vocabulary sources *)

S_chinese == <<"c", "h", "i", "n", "e", "s", "e">>
S_pinyin == <<"p", "i", "n", "y", "i", "n">>
S_english == <<"e", "n", "g", "l", "i", "s", "h">>
S_part_of_speech == <<"p", "a", "r", "t", "_", "o", "f", "_", "s", "p", "e", "e", "c", "h">>
S_n == <<"n">>
S_N == <<"N">>
S_Chinese == <<"C", "h", "i", "n", "e", "s", "e">>
S_Pinyin == <<"P", "i", "n", "y", "i", "n">>
S_English == <<"E", "n", "g", "l", "i", "s", "h">>
S_Part_Of_Speech == <<"P", "a", "r", "t", "_", "O", "f", "_", "S", "p", "e", "e", "c", "h">>
S_nan == <<"n", "a", "n">>
S_verb == <<"v", "e", "r", "b">>
S_noun == <<"n", "o", "u", "n">>
S_measure_word == <<"m", "e", "a", "s", "u", "r", "e", " ", "w", "o", "r", "d">>
S_a_measure_word == <<"a", " ", "m", "e", "a", "s", "u", "r", "e", " ", "w", "o", "r", "d">>
S_for == <<"f", "o", "r">>
S_to_ == <<"t", "o", " ">>
S_a == <<"a">>
S_an == <<"a", "n">>
S_the == <<"t", "h", "e">>
S_to == <<"t", "o">>
S_s == <<"s">>
S_space == <<" ">>
S_comma == <<",">>
S_1 == <<"1">>
S_2 == <<"2">>
\* the script forms U+56DE (hui, return), U+732B (mao, cat), U+53BB (qu, go)
Z_hui == <<"U56DE">>
Z_mao == <<"U732B">>
Z_qu == <<"U53BB">>
P_hui == <<"h", "u", "U00ED">>
P_mao == <<"m", "U0101", "o">>
P_qu == <<"q", "U00F9">>
E_return == <<"r", "e", "t", "u", "r", "n">>
E_cat == <<"c", "a", "t">>
Z_chuqu == <<"U51FA", "U53BB">>
Z_T_xu == <<"T", "U6064">>
P_chuqu == <<"c", "h", "U016B", "q", "U00F9">>
P_T_xu == <<"T", " ", "x", "U00F9">>
E_to_go_out == <<"t", "o", " ", "g", "o", " ", "o", "u", "t">>
E_shirt_tee == <<"s", "h", "i", "r", "t", ",", " ", "t", "e", "e">>
E_to_go == <<"t", "o", " ", "g", "o", ",", " ", "l", "e", "a", "v", "e">>

----------------------------------------------------------------------------
(* models.py *)

\* class PracticeMode: the members game.py and bot.py use
PINYIN_TO_ENGLISH == "pinyin_to_english"
CHARACTERS_TO_ENGLISH == "characters_to_english"
ENGLISH_TO_CHARACTERS == "english_to_characters"
PracticeMode == {PINYIN_TO_ENGLISH, CHARACTERS_TO_ENGLISH, ENGLISH_TO_CHARACTERS}

\* Field(..., ge=1, le=6) of Word.hsk_level and UserState.hsk_level
MinLevel == 1
MaxLevel == 6

\* Python's None, as a value of an Optional[...] field or result
None == [none |-> TRUE]

\* class Word
Word(chinese, pinyin, english, part_of_speech, hsk_level) ==
    [chinese |-> chinese, pinyin |-> pinyin, english |-> english,
     part_of_speech |-> part_of_speech, hsk_level |-> hsk_level]

\* class UserState: the fields given, the others at their defaults
UserState(user_id, hsk_level, practice_mode) ==
    [user_id |-> user_id, hsk_level |-> hsk_level, practice_mode |-> practice_mode,
     current_word |-> None, score |-> 0, total_attempts |-> 0, correct_attempts |-> 0]

\* the validation of UserState.hsk_level (ge=1, le=6)
UserStateValid(hsk_level) == MinLevel <= hsk_level /\ hsk_level <= MaxLevel

\* UserState.accuracy, as the exact fraction <<numerator, denominator>> of the
\* percentage: <<0, 1>> is 0.0
accuracy(user_state) ==
    IF user_state.total_attempts = 0
    THEN <<0, 1>>
    ELSE <<user_state.correct_attempts * 100, user_state.total_attempts>>

\* class GameSession
GameSession(user_state, vocabulary, start_time) ==
    [user_state |-> user_state, vocabulary |-> vocabulary, start_time |-> start_time]

\* The exception classes the engine raises, each with its base classes
ExceptionBases(cls) ==
    CASE cls = "ValidationError" -> {"ValidationError", "ValueError", "Exception"}
      [] cls = "ValueError" -> {"ValueError", "Exception"}
      [] cls = "FileNotFoundError" -> {"FileNotFoundError", "OSError", "Exception"}
      [] OTHER -> {}

\* isinstance(raised, cls); "" stands for a normal return
IsInstance(raised, cls) == cls \in ExceptionBases(raised)

----------------------------------------------------------------------------
(* The vocabulary sources: pipe-separated files, one per level *)

Missing == [exists |-> FALSE, header |-> <<>>, rows |-> <<>>]
CsvFile(header, rows) == [exists |-> TRUE, header |-> header, rows |-> rows]

\* the levels a caller passes
InputLevels == (MinLevel - 1)..(MaxLevel + 1)

HeaderFull == <<S_n, S_chinese, S_pinyin, S_english, S_part_of_speech>>
HeaderCapitals == <<S_Chinese, S_Pinyin, S_English, S_Part_Of_Speech>>
HeaderNoPos == <<S_n, S_chinese, S_pinyin, S_english>>
HeaderLowercase == <<S_chinese, S_pinyin, S_english, S_part_of_speech>>
HeaderNoPosCapitals == <<S_N, S_Chinese, S_Pinyin, S_English>>

\* the content of a source, by the name the model gives it ("missing": no file)
Source(name) ==
    CASE name = "two_words" ->
            CsvFile(HeaderFull, << <<S_1, Z_hui, P_hui, E_return, S_verb>>,
                                   <<S_2, Z_mao, P_mao, E_cat, S_noun>> >>)
      [] name = "capitals" ->
            CsvFile(HeaderCapitals, << <<Z_qu, P_qu, E_to_go, S_verb>> >>)
      [] name = "no_pos" ->
            CsvFile(HeaderNoPos, << <<S_1, Z_hui, P_hui, E_return>> >>)
      [] name = "header_only" -> CsvFile(HeaderFull, <<>>)
      [] name = "lowercase" ->
            CsvFile(HeaderLowercase, << <<Z_qu, P_qu, E_to_go, S_verb>> >>)
      [] name = "no_pos_capitals" ->
            CsvFile(HeaderNoPosCapitals, << <<S_1, Z_hui, P_hui, E_return>> >>)
      [] name = "grading" ->
            CsvFile(HeaderFull, << <<S_1, Z_hui, P_hui, E_return, S_verb>>,
                                   <<S_2, Z_mao, P_mao, E_cat, S_noun>>,
                                   <<S_1, Z_chuqu, P_chuqu, E_to_go_out, S_verb>>,
                                   <<S_2, Z_T_xu, P_T_xu, E_shirt_tee, S_noun>> >>)
      [] name = "short_row" ->
            CsvFile(HeaderFull, << <<S_1, Z_hui, P_hui, E_return, S_verb>>,
                                   <<S_2, Z_mao, P_mao>> >>)
      [] name = "empty_field" ->
            CsvFile(HeaderFull, << <<S_1, Z_qu, P_qu, <<>>, S_verb>>,
                                   <<S_2, Z_mao, P_mao, E_cat, S_noun>> >>)
      [] OTHER -> Missing

\* the vocabulary directory at start: the source of hsk-<level>.csv
InitialFiles ==
    [l \in InputLevels |->
        CASE l = 1 -> "two_words"
          [] l = 2 -> "capitals"
          [] l = 3 -> "no_pos"
          [] l = 4 -> "missing"
          [] l = 5 -> "header_only"
          [] l = 6 -> "missing"
          [] OTHER -> "two_words"]

\* the levels whose source is rewritten while the engine runs, and what is written
WritableLevels == {1}
SourceVariants == {"two_words", "capitals"}

\* a missing value of the data frame
NaN == <<"NaN">>

\* str(value) of a cell read with dtype=str
str_of(cell) == IF cell = NaN THEN S_nan ELSE cell

\* pd.read_csv(sep='|', dtype=str, on_bad_lines='warn'): a line with more fields
\* than the header is dropped with a warning, a shorter one is filled with NaN,
\* an empty field is NaN
read_csv(file) ==
    LET width == Len(file.header)
        kept == SelectIn(file.rows, {r \in Range(file.rows) : Len(r) <= width})
        cell(r, c) == IF c <= Len(r) /\ r[c] # <<>> THEN r[c] ELSE NaN
    IN  [columns |-> file.header,
         rows |-> [i \in 1..Len(kept) |-> [c \in 1..width |-> cell(kept[i], c)]]]

required_columns == <<S_chinese, S_pinyin, S_english, S_part_of_speech>>

----------------------------------------------------------------------------
(* game.py: VocabularyGame *)

\* what a method call does: the session map after it, the class of the exception
\* it raised ("" when it returned) and the value it returned
Outcome(sessions, raised, ret) == [sessions |-> sessions, raised |-> raised, ret |-> ret]

\* dict.get(key), dict[key] = value, dict.pop(key, None) on the session map
dict_get(d, k) == IF k \in DOMAIN d THEN d[k] ELSE None
dict_set(d, k, v) == [x \in (DOMAIN d) \cup {k} |-> IF x = k THEN v ELSE d[x]]
dict_pop(d, k) == [x \in (DOMAIN d) \ {k} |-> d[x]]

\* the rows of an existing source turned into Words stamped with word_level, as
\* load_vocabulary does after its level check (used by the variants below)
load_vocabulary_rows_as(dir, hsk_level, word_level) ==
    LET df == read_csv(Source(dir[hsk_level]))
        columns == [i \in 1..Len(df.columns) |-> str_lower(df.columns[i])]
        col(name) == CHOOSE i \in 1..Len(columns) : columns[i] = name
        word(row) == Word(str_strip(str_of(row[col(S_chinese)])),
                          str_strip(str_of(row[col(S_pinyin)])),
                          str_strip(str_of(row[col(S_english)])),
                          str_strip(str_of(row[col(S_part_of_speech)])),
                          word_level)
    IN  IF Range(required_columns) \ Range(columns) # {}
        THEN [raised |-> "ValueError", message |-> "Missing required columns",
              words |-> <<>>]
        ELSE [raised |-> "", message |-> "",
              words |-> [i \in 1..Len(df.rows) |-> word(df.rows[i])]]

\* load_vocabulary as it would be if it opened the source before it checked the level
load_vocabulary_source_first(dir, hsk_level) ==
    IF ~Source(dir[hsk_level]).exists
    THEN [raised |-> "FileNotFoundError", message |-> "No such file or directory",
          words |-> <<>>]
    ELSE IF ~(1 <= hsk_level /\ hsk_level <= 6)
    THEN [raised |-> "ValueError", message |-> "Invalid HSK level", words |-> <<>>]
    ELSE load_vocabulary_rows_as(dir, hsk_level, hsk_level)

\* load_vocabulary as it would be if every Word were given the lowest level
load_vocabulary_lowest_level(dir, hsk_level) ==
    IF ~(1 <= hsk_level /\ hsk_level <= 6)
    THEN [raised |-> "ValueError", message |-> "Invalid HSK level", words |-> <<>>]
    ELSE IF ~Source(dir[hsk_level]).exists
    THEN [raised |-> "FileNotFoundError", message |-> "No such file or directory",
          words |-> <<>>]
    ELSE load_vocabulary_rows_as(dir, hsk_level, 1)

\* load_vocabulary as it would be if the column names were taken as the source
\* spells them
load_vocabulary_case_sensitive(dir, hsk_level) ==
    IF ~(1 <= hsk_level /\ hsk_level <= 6)
    THEN [raised |-> "ValueError", message |-> "Invalid HSK level", words |-> <<>>]
    ELSE IF ~Source(dir[hsk_level]).exists
    THEN [raised |-> "FileNotFoundError", message |-> "No such file or directory",
          words |-> <<>>]
    ELSE
        LET df == read_csv(Source(dir[hsk_level]))
            columns == df.columns
            col(name) == CHOOSE i \in 1..Len(columns) : columns[i] = name
            word(row) == Word(str_strip(str_of(row[col(S_chinese)])),
                              str_strip(str_of(row[col(S_pinyin)])),
                              str_strip(str_of(row[col(S_english)])),
                              str_strip(str_of(row[col(S_part_of_speech)])),
                              hsk_level)
        IN  IF Range(required_columns) \ Range(columns) # {}
            THEN [raised |-> "ValueError", message |-> "Missing required columns",
                  words |-> <<>>]
            ELSE [raised |-> "", message |-> "",
                  words |-> [i \in 1..Len(df.rows) |-> word(df.rows[i])]]

\* VocabularyGame.load_vocabulary on the vocabulary directory dir:
\* [raised |-> exception class or "", words |-> the list returned]
load_vocabulary(dir, hsk_level) ==
    IF ~(1 <= hsk_level /\ hsk_level <= 6)
    THEN [raised |-> "ValueError", message |-> "Invalid HSK level", words |-> <<>>]
    ELSE IF ~Source(dir[hsk_level]).exists
    THEN [raised |-> "FileNotFoundError", message |-> "No such file or directory",
          words |-> <<>>]
    ELSE
        LET df == read_csv(Source(dir[hsk_level]))
            columns == [i \in 1..Len(df.columns) |-> str_lower(df.columns[i])]
            missing_columns == SelectIn(required_columns,
                                        Range(required_columns) \ Range(columns))
            col(name) == CHOOSE i \in 1..Len(columns) : columns[i] = name
            word(row) == Word(str_strip(str_of(row[col(S_chinese)])),
                              str_strip(str_of(row[col(S_pinyin)])),
                              str_strip(str_of(row[col(S_english)])),
                              str_strip(str_of(row[col(S_part_of_speech)])),
                              hsk_level)
        IN  IF missing_columns # <<>>
            THEN [raised |-> "ValueError", message |-> "Missing required columns",
                  words |-> <<>>]
            ELSE [raised |-> "", message |-> "",
                  words |-> [i \in 1..Len(df.rows) |-> word(df.rows[i])]]

\* start_session as it would be if a failed load were answered with an empty vocabulary
start_session_swallows_load_error(sessions, dir, time, user_id, hsk_level, mode) ==
    IF ~UserStateValid(hsk_level)
    THEN Outcome(sessions, "ValidationError", None)
    ELSE
        LET user_state == UserState(user_id, hsk_level, mode)
            loaded == load_vocabulary(dir, hsk_level)
            session == GameSession(user_state, loaded.words, time)
        IN  Outcome(dict_set(sessions, user_id, session), "", session)

\* start_session as it would be if it reused the UserState of the session it replaces
start_session_keeps_state(sessions, dir, time, user_id, hsk_level, mode) ==
    IF ~UserStateValid(hsk_level)
    THEN Outcome(sessions, "ValidationError", None)
    ELSE
        LET user_state ==
                IF user_id \in DOMAIN sessions
                THEN [sessions[user_id].user_state EXCEPT
                        !.hsk_level = hsk_level, !.practice_mode = mode]
                ELSE UserState(user_id, hsk_level, mode)
            loaded == load_vocabulary(dir, hsk_level)
            session == GameSession(user_state, loaded.words, time)
        IN  IF loaded.raised # ""
            THEN Outcome(sessions, loaded.raised, None)
            ELSE Outcome(dict_set(sessions, user_id, session), "", session)

\* start_session as it would be if it rebuilt the session map around the new session
start_session_single_session(sessions, dir, time, user_id, hsk_level, mode) ==
    IF ~UserStateValid(hsk_level)
    THEN Outcome(sessions, "ValidationError", None)
    ELSE
        LET user_state == UserState(user_id, hsk_level, mode)
            loaded == load_vocabulary(dir, hsk_level)
            session == GameSession(user_state, loaded.words, time)
        IN  IF loaded.raised # ""
            THEN Outcome(sessions, loaded.raised, None)
            ELSE Outcome([x \in {user_id} |-> session], "", session)

\* start_session as it would be if it removed the user's session before loading
start_session_drops_old_first(sessions, dir, time, user_id, hsk_level, mode) ==
    IF ~UserStateValid(hsk_level)
    THEN Outcome(sessions, "ValidationError", None)
    ELSE
        LET user_state == UserState(user_id, hsk_level, mode)
            loaded == load_vocabulary(dir, hsk_level)
            session == GameSession(user_state, loaded.words, time)
        IN  IF loaded.raised # ""
            THEN Outcome(dict_pop(sessions, user_id), loaded.raised, None)
            ELSE Outcome(dict_set(sessions, user_id, session), "", session)

\* start_session as it would be if it loaded the vocabulary of level 1 for every level
start_session_lowest_level_words(sessions, dir, time, user_id, hsk_level, mode) ==
    IF ~UserStateValid(hsk_level)
    THEN Outcome(sessions, "ValidationError", None)
    ELSE
        LET user_state == UserState(user_id, hsk_level, mode)
            loaded == load_vocabulary(dir, 1)
            session == GameSession(user_state, loaded.words, time)
        IN  IF loaded.raised # ""
            THEN Outcome(sessions, loaded.raised, None)
            ELSE Outcome(dict_set(sessions, user_id, session), "", session)

\* VocabularyGame.start_session
start_session(sessions, dir, time, user_id, hsk_level, mode) ==
    IF ~UserStateValid(hsk_level)
    THEN Outcome(sessions, "ValidationError", None)
    ELSE
        LET user_state == UserState(user_id, hsk_level, mode)
            loaded == load_vocabulary(dir, hsk_level)
            session == GameSession(user_state, loaded.words, time)
        IN  IF loaded.raised # ""
            THEN Outcome(sessions, loaded.raised, None)
            ELSE Outcome(dict_set(sessions, user_id, session), "", session)

\* get_next_word as it would be if it never drew the current word again
get_next_word_no_repeat(sessions, user_id, choice) ==
    LET session == dict_get(sessions, user_id)
    IN  IF session = None \/ session.vocabulary = <<>>
        THEN Outcome(sessions, "", None)
        ELSE
            LET other == (choice % Len(session.vocabulary)) + 1
                word == IF session.vocabulary[choice] = session.user_state.current_word
                        THEN session.vocabulary[other]
                        ELSE session.vocabulary[choice]
            IN  Outcome(dict_set(sessions, user_id,
                                 [session EXCEPT !.user_state.current_word = word]),
                        "", word)

\* get_next_word as it would be if drawing a word started the count of attempts anew
get_next_word_resets_attempts(sessions, user_id, choice) ==
    LET session == dict_get(sessions, user_id)
    IN  IF session = None \/ session.vocabulary = <<>>
        THEN Outcome(sessions, "", None)
        ELSE
            LET word == session.vocabulary[choice]
            IN  Outcome(dict_set(sessions, user_id,
                                 [session EXCEPT !.user_state.current_word = word,
                                                 !.user_state.total_attempts = 0]),
                        "", word)

\* get_next_word as it would be if it took the word drawn out of the vocabulary
get_next_word_removes_word(sessions, user_id, choice) ==
    LET session == dict_get(sessions, user_id)
    IN  IF session = None \/ session.vocabulary = <<>>
        THEN Outcome(sessions, "", None)
        ELSE
            LET word == session.vocabulary[choice]
            IN  Outcome(dict_set(sessions, user_id,
                                 [session EXCEPT
                                    !.user_state.current_word = word,
                                    !.vocabulary = SubSeq(@, 1, choice - 1)
                                                   \o SubSeq(@, choice + 1, Len(@))]),
                        "", word)

\* get_next_word as it would be without the test for an empty vocabulary:
\* random.choice raises IndexError on an empty list
get_next_word_without_empty_guard(sessions, user_id, choice) ==
    LET session == dict_get(sessions, user_id)
    IN  IF session = None
        THEN Outcome(sessions, "", None)
        ELSE IF session.vocabulary = <<>>
        THEN Outcome(sessions, "IndexError", None)
        ELSE
            LET word == session.vocabulary[choice]
            IN  Outcome(dict_set(sessions, user_id,
                                 [session EXCEPT !.user_state.current_word = word]),
                        "", word)

\* VocabularyGame.get_next_word; choice is the index random.choice draws
get_next_word(sessions, user_id, choice) ==
    LET session == dict_get(sessions, user_id)
    IN  IF session = None \/ session.vocabulary = <<>>
        THEN Outcome(sessions, "", None)
        ELSE
            LET word == session.vocabulary[choice]
            IN  Outcome(dict_set(sessions, user_id,
                                 [session EXCEPT !.user_state.current_word = word]),
                        "", word)

\* translation_variations as it would be without the rule for verbs
translation_variations_no_verb_rule(raw, part_of_speech) ==
    LET translation == str_strip(raw)
        pos == str_lower(part_of_speech)
    IN  {translation} \cup Range(str_split(translation))
        \cup (CASE pos = S_noun ->
                    {article \o S_space \o translation : article \in {S_a, S_an, S_the}}
                    \cup (IF ~str_endswith(translation, S_s)
                          THEN {translation \o S_s} ELSE {})
                [] pos = S_measure_word ->
                    {str_strip(str_replace(translation, S_measure_word, <<>>)),
                     str_strip(str_replace(translation, S_a_measure_word, <<>>)),
                     str_strip(str_replace(translation, S_for, <<>>))}
                [] OTHER -> {})

\* translation_variations as it would be without the rule for nouns
translation_variations_no_noun_rule(raw, part_of_speech) ==
    LET translation == str_strip(raw)
        pos == str_lower(part_of_speech)
    IN  {translation} \cup Range(str_split(translation))
        \cup (CASE pos = S_verb ->
                    IF str_startswith(translation, S_to_)
                    THEN {str_replace_first(translation, S_to_, <<>>)}
                    ELSE {S_to_ \o translation}
                [] pos = S_measure_word ->
                    {str_strip(str_replace(translation, S_measure_word, <<>>)),
                     str_strip(str_replace(translation, S_a_measure_word, <<>>)),
                     str_strip(str_replace(translation, S_for, <<>>))}
                [] OTHER -> {})

\* the variations one translation adds (the body of the loop of
\* _generate_word_variations)
translation_variations(raw, part_of_speech) ==
    LET translation == str_strip(raw)
        pos == str_lower(part_of_speech)
    IN  {translation} \cup Range(str_split(translation))
        \cup (CASE pos = S_verb ->
                    IF str_startswith(translation, S_to_)
                    THEN {str_replace_first(translation, S_to_, <<>>)}
                    ELSE {S_to_ \o translation}
                [] pos = S_noun ->
                    {article \o S_space \o translation : article \in {S_a, S_an, S_the}}
                    \cup (IF ~str_endswith(translation, S_s)
                          THEN {translation \o S_s} ELSE {})
                [] pos = S_measure_word ->
                    {str_strip(str_replace(translation, S_measure_word, <<>>)),
                     str_strip(str_replace(translation, S_a_measure_word, <<>>)),
                     str_strip(str_replace(translation, S_for, <<>>))}
                [] OTHER -> {})

\* VocabularyGame._generate_word_variations
generate_word_variations(word) ==
    UNION {translation_variations(raw, word.part_of_speech) :
              raw \in Range(str_split_sep(str_lower(word.english), S_comma))}

\* is_correct as it would be without the second pass over the answer
is_correct_first_pass_only(current_word, answer, mode) ==
    LET user_answer == str_strip(str_lower(answer))
    IN  IF mode \in {PINYIN_TO_ENGLISH, CHARACTERS_TO_ENGLISH}
        THEN user_answer \in generate_word_variations(current_word)
        ELSE user_answer = str_strip(current_word.chinese)

\* the grading of check_answer (is_correct)
is_correct(current_word, answer, mode) ==
    LET user_answer == str_strip(str_lower(answer))
    IN  IF mode \in {PINYIN_TO_ENGLISH, CHARACTERS_TO_ENGLISH}
        THEN
            LET expected_variations == generate_word_variations(current_word)
                user_answer_no_articles ==
                    str_strip(str_join(S_space,
                        SelectIn(str_split(user_answer),
                                 Range(str_split(user_answer)) \ {S_a, S_an, S_the, S_to})))
            IN  \/ user_answer \in expected_variations
                \/ user_answer_no_articles \in expected_variations
        ELSE user_answer = str_strip(current_word.chinese)

\* update_statistics as it would be if the score were raised outside the "if is_correct"
update_statistics_score_always(user_state, correct) ==
    [user_state EXCEPT
        !.total_attempts = @ + 1,
        !.correct_attempts = IF correct THEN @ + 1 ELSE @,
        !.score = @ + 1]

\* update_statistics as it would be if total_attempts counted the misses only
update_statistics_total_on_miss_only(user_state, correct) ==
    [user_state EXCEPT
        !.total_attempts = IF correct THEN @ ELSE @ + 1,
        !.correct_attempts = IF correct THEN @ + 1 ELSE @,
        !.score = IF correct THEN @ + 1 ELSE @]

\* the update of the statistics at the end of check_answer
update_statistics(user_state, correct) ==
    [user_state EXCEPT
        !.total_attempts = @ + 1,
        !.correct_attempts = IF correct THEN @ + 1 ELSE @,
        !.score = IF correct THEN @ + 1 ELSE @]

\* check_answer as it would be if it tested the session only, an answer given
\* while there is no current word being graded incorrect
check_answer_without_word_guard(sessions, user_id, answer) ==
    LET session == dict_get(sessions, user_id)
    IN  IF session = None
        THEN Outcome(sessions, "ValueError", None)
        ELSE
            LET correct == /\ session.user_state.current_word # None
                           /\ is_correct(session.user_state.current_word, answer,
                                         session.user_state.practice_mode)
            IN  Outcome(dict_set(sessions, user_id,
                                 [session EXCEPT
                                    !.user_state = update_statistics(@, correct)]),
                        "", [bool |-> correct])

\* check_answer as it would be if an answer given after a miss were graded correct
check_answer_lenient_after_miss(sessions, user_id, answer) ==
    LET session == dict_get(sessions, user_id)
    IN  IF session = None \/ session.user_state.current_word = None
        THEN Outcome(sessions, "ValueError", None)
        ELSE
            LET correct ==
                    \/ is_correct(session.user_state.current_word, answer,
                                  session.user_state.practice_mode)
                    \/ session.user_state.total_attempts
                            > session.user_state.correct_attempts
            IN  Outcome(dict_set(sessions, user_id,
                                 [session EXCEPT
                                    !.user_state = update_statistics(@, correct)]),
                        "", [bool |-> correct])

\* check_answer as it would be if it counted the attempt before it tested for a
\* current word
check_answer_counts_before_guard(sessions, user_id, answer) ==
    LET session == dict_get(sessions, user_id)
    IN  IF session = None
        THEN Outcome(sessions, "ValueError", None)
        ELSE IF session.user_state.current_word = None
        THEN Outcome(dict_set(sessions, user_id,
                              [session EXCEPT !.user_state.total_attempts = @ + 1]),
                     "ValueError", None)
        ELSE
            LET correct == is_correct(session.user_state.current_word, answer,
                                      session.user_state.practice_mode)
            IN  Outcome(dict_set(sessions, user_id,
                                 [session EXCEPT
                                    !.user_state = update_statistics(@, correct)]),
                        "", [bool |-> correct])

\* check_answer as it would be if grading used the current word up
check_answer_consumes_word(sessions, user_id, answer) ==
    LET session == dict_get(sessions, user_id)
    IN  IF session = None \/ session.user_state.current_word = None
        THEN Outcome(sessions, "ValueError", None)
        ELSE
            LET correct == is_correct(session.user_state.current_word, answer,
                                      session.user_state.practice_mode)
            IN  Outcome(dict_set(sessions, user_id,
                                 [session EXCEPT
                                    !.user_state = [update_statistics(@, correct)
                                                        EXCEPT !.current_word = None]]),
                        "", [bool |-> correct])

\* VocabularyGame.check_answer
check_answer(sessions, user_id, answer) ==
    LET session == dict_get(sessions, user_id)
    IN  IF session = None \/ session.user_state.current_word = None
        THEN Outcome(sessions, "ValueError", None)
        ELSE
            LET correct == is_correct(session.user_state.current_word, answer,
                                      session.user_state.practice_mode)
            IN  Outcome(dict_set(sessions, user_id,
                                 [session EXCEPT
                                    !.user_state = update_statistics(@, correct)]),
                        "", [bool |-> correct])

\* end_session as it would be if it read the session with get() and left it in the map
end_session_keeps_session(sessions, user_id) ==
    LET session == dict_get(sessions, user_id)
    IN  Outcome(sessions, "", IF session # None THEN session.user_state ELSE None)

\* end_session as it would be with pop(user_id) and no default
end_session_pop_without_default(sessions, user_id) ==
    LET session == dict_get(sessions, user_id)
    IN  IF session = None
        THEN Outcome(sessions, "KeyError", None)
        ELSE Outcome(dict_pop(sessions, user_id), "", session.user_state)

\* VocabularyGame.end_session
end_session(sessions, user_id) ==
    LET session == dict_get(sessions, user_id)
    IN  Outcome(dict_pop(sessions, user_id), "",
                IF session # None THEN session.user_state ELSE None)

----------------------------------------------------------------------------
(* The handlers of the bot (HSKBot) *)

\* what a handler did: the engine methods it called, in order, and the messages
\* it sent
Handled(sessions, calls, replies) ==
    Outcome(sessions, "", [calls |-> calls, replies |-> replies])

\* HSKBot.start_practice, started being the outcome of its call of start_session:
\* an exception of start_session leaves the handler, otherwise the first word is
\* drawn
start_practice(started, user_id, choice) ==
    IF started.raised # ""
    THEN Outcome(started.sessions, started.raised, None)
    ELSE
        LET drawn == get_next_word(started.sessions, user_id, choice)
        IN  Handled(drawn.sessions, <<"start_session", "get_next_word">>,
                    IF drawn.ret = None
                    THEN <<"Error loading vocabulary. Please try again.">>
                    ELSE <<"Translate this word">>)

\* handle_answer as it would be without the two tests before check_answer, the
\* ValueError of check_answer being caught and sent as a message
handle_answer_without_guards(sessions, user_id, text, choice) ==
    LET answer == str_strip(text)
        checked == check_answer(sessions, user_id, answer)
    IN  IF checked.raised = "ValueError"
        THEN Handled(checked.sessions, <<"check_answer">>,
                     <<"No active session or current word">>)
        ELSE
            LET drawn == get_next_word(checked.sessions, user_id, choice)
            IN  Handled(drawn.sessions, <<"check_answer", "get_next_word">>,
                        <<IF checked.ret.bool THEN "Correct!" ELSE "Incorrect!">>
                        \o (IF drawn.ret # None THEN <<"Next word">> ELSE <<>>))

\* HSKBot.handle_answer: text is the text of the message
handle_answer(sessions, user_id, text, choice) ==
    LET answer == str_strip(text)
        session == dict_get(sessions, user_id)
    IN  IF session = None
        THEN Handled(sessions, <<>>, <<"No active session. Use /start to begin practice.">>)
        ELSE IF session.user_state.current_word = None
        THEN Handled(sessions, <<>>,
                     <<"No current word. Please start a new session with /start">>)
        ELSE
            LET checked == check_answer(sessions, user_id, answer)
            IN  IF checked.raised = "ValueError"
                THEN Handled(checked.sessions, <<"check_answer">>,
                             <<"No active session or current word">>)
                ELSE
                    LET drawn == get_next_word(checked.sessions, user_id, choice)
                    IN  Handled(drawn.sessions, <<"check_answer", "get_next_word">>,
                                <<IF checked.ret.bool THEN "Correct!" ELSE "Incorrect!">>
                                \o (IF drawn.ret # None THEN <<"Next word">> ELSE <<>>))

----------------------------------------------------------------------------
(* The calls the transport makes into the engine, and the environment *)

A_Return == <<" ", "R", "e", "t", "u", "r", "n", " ">>
A_a_cat == <<"a", " ", "c", "a", "t">>

A_return == <<"r", "e", "t", "u", "r", "n">>
A_to_return == <<"t", "o", " ", "r", "e", "t", "u", "r", "n">>
A_RETURN == <<"R", "E", "T", "U", "R", "N">>
A_returning == <<"r", "e", "t", "u", "r", "n", "i", "n", "g">>
A_the_return == <<"t", "h", "e", " ", "r", "e", "t", "u", "r", "n">>
A_to_go_out == <<"t", "o", " ", "g", "o", " ", "o", "u", "t">>
A_GO_OUT == <<"G", "o", " ", "O", "u", "t">>
A_going_out == <<"g", "o", "i", "n", "g", " ", "o", "u", "t">>
A_the_cat == <<"t", "h", "e", " ", "c", "a", "t">>
A_An_cat == <<"A", "n", " ", "c", "a", "t">>
A_cats == <<"c", "a", "t", "s">>
A_the_dog == <<"t", "h", "e", " ", "d", "o", "g">>
A_tees == <<"t", "e", "e", "s">>
A_a_shirt == <<"a", " ", "s", "h", "i", "r", "t">>
A_T_xu == <<" ", "T", "U6064">>
A_t_xu == <<"t", "U6064">>
A_hui == <<"h", "u", "U00ED">>
A_to == <<"t", "o">>
A_the_a == <<"t", "h", "e", " ", "a">>
A_blank == <<" ", " ">>

\* the answers sent in the specification of the grading
GradeAnswers ==
    {A_Return, A_a_cat, Z_hui,
     A_return, A_to_return, A_RETURN, A_returning, A_the_return,
     A_to_go_out, A_GO_OUT, A_going_out, A_the_cat, A_An_cat,
     A_cats, A_the_dog, A_tees, A_a_shirt, A_T_xu,
     A_t_xu, A_hui,
     A_to, A_the_a, A_blank}

\* the answers a user sends
Answers == {A_Return, A_a_cat, Z_hui}

\* the values time.time() returns
Times == {0, 1}

\* the arguments of a call; an operation that takes no level, mode or answer
\* has NoLevel, "" and the empty string there
NoLevel == MinLevel - 2
Args(hsk_level, mode, answer) == [hsk_level |-> hsk_level, mode |-> mode, answer |-> answer]
NoArgs == Args(NoLevel, "", <<>>)

\* the record of a call: the operation, the user it was made for, its arguments,
\* the session that user had when it was made (None when there was none), the
\* exception class it raised ("" when it returned) and the value it returned
Call(op, user_id, args, prior, out) ==
    [op |-> op, user_id |-> user_id, args |-> args, prior |-> prior,
     raised |-> out.raised, ret |-> out.ret]

\* the threads that call check_answer in SpecThreads
Threads == {1, 2}

\* a thread inside check_answer: where it is (pc), the arguments of the call, the
\* session it found, the verdict it computed, and the counter it is updating
\* (field) with the value it read (tmp)
Idle == [pc |-> "idle", user_id |-> 0, answer |-> <<>>, prior |-> None,
         correct |-> FALSE, field |-> 1, tmp |-> 0]

\* the counters check_answer updates, in the order of its statements
StatFields == <<"total_attempts", "correct_attempts", "score">>

Init ==
    /\ active_sessions = <<>>
    /\ files = InitialFiles
    /\ last = Call("init", 0, NoArgs, None, Outcome(<<>>, "", None))
    /\ verdicts = <<>>
    /\ threads = [t \in Threads |-> Idle]

\* game.start_session(user_id, hsk_level, mode), time.time() returning time
StartSession(user_id, hsk_level, mode, time) ==
    LET out == start_session(active_sessions, files, time, user_id, hsk_level, mode)
    IN  /\ active_sessions' = out.sessions
        /\ last' = Call("start_session", user_id, Args(hsk_level, mode, <<>>),
                        dict_get(active_sessions, user_id), out)
        /\ verdicts' = IF out.raised = ""
                       THEN dict_set(verdicts, user_id, [n |-> 0, c |-> 0])
                       ELSE verdicts
        /\ UNCHANGED <<files, threads>>

\* the indexes random.choice can draw for user_id (one draw when nothing is drawn)
Choices(user_id) ==
    LET session == dict_get(active_sessions, user_id)
    IN  IF session = None \/ session.vocabulary = <<>>
        THEN {1} ELSE 1..Len(session.vocabulary)

\* game.get_next_word(user_id)
GetNextWord(user_id) ==
    \E choice \in Choices(user_id) :
        LET out == get_next_word(active_sessions, user_id, choice)
        IN  /\ active_sessions' = out.sessions
            /\ last' = Call("get_next_word", user_id, NoArgs,
                            dict_get(active_sessions, user_id), out)
            /\ UNCHANGED <<files, verdicts, threads>>

\* game.check_answer(user_id, answer); a session takes at most MaxAttempts answers
CheckAnswer(user_id, answer) ==
    LET session == dict_get(active_sessions, user_id)
        out == check_answer(active_sessions, user_id, answer)
    IN  /\ session # None => session.user_state.total_attempts < MaxAttempts
        /\ active_sessions' = out.sessions
        /\ last' = Call("check_answer", user_id, Args(NoLevel, "", answer), session, out)
        /\ verdicts' =
              IF out.raised = "" /\ user_id \in DOMAIN verdicts
              THEN [verdicts EXCEPT ![user_id] =
                        [n |-> @.n + 1, c |-> IF out.ret.bool THEN @.c + 1 ELSE @.c]]
              ELSE verdicts
        /\ UNCHANGED <<files, threads>>

\* game.end_session(user_id)
EndSession(user_id) ==
    LET out == end_session(active_sessions, user_id)
    IN  /\ active_sessions' = out.sessions
        /\ last' = Call("end_session", user_id, NoArgs,
                        dict_get(active_sessions, user_id), out)
        /\ verdicts' = dict_pop(verdicts, user_id)
        /\ UNCHANGED <<files, threads>>

\* game.load_vocabulary(hsk_level), called on its own
LoadVocabulary(hsk_level) ==
    LET out == load_vocabulary(files, hsk_level)
    IN  /\ last' = Call("load_vocabulary", 0, Args(hsk_level, "", <<>>), None,
                        Outcome(active_sessions, out.raised,
                                IF out.raised = "" THEN [words |-> out.words] ELSE None))
        /\ UNCHANGED <<active_sessions, files, verdicts, threads>>

\* the source of a level is rewritten on disk
WriteSource(hsk_level, file) ==
    /\ files[hsk_level] # file
    /\ files' = [files EXCEPT ![hsk_level] = file]
    /\ UNCHANGED <<active_sessions, last, verdicts, threads>>

\* the calls of user_id that threads are inside
InFlight(user_id) == {t \in Threads : threads[t].pc # "idle" /\ threads[t].user_id = user_id}

\* a thread calls game.check_answer(user_id, answer)
ThreadCall(t, user_id, answer) ==
    /\ threads[t].pc = "idle"
    /\ user_id \in DOMAIN verdicts =>
            verdicts[user_id].n + Cardinality(InFlight(user_id)) < MaxAttempts
    /\ threads' = [threads EXCEPT ![t] =
                        [Idle EXCEPT !.pc = "guard", !.user_id = user_id, !.answer = answer]]
    /\ UNCHANGED <<active_sessions, files, last, verdicts>>

\* the thread looks the session up, raises when there is no session or no current
\* word, and grades the answer otherwise (check_answer up to "Update statistics")
ThreadGuard(t) ==
    LET me == threads[t]
        session == dict_get(active_sessions, me.user_id)
    IN  /\ me.pc = "guard"
        /\ IF session = None \/ session.user_state.current_word = None
           THEN /\ threads' = [threads EXCEPT ![t] = Idle]
                /\ last' = Call("check_answer", me.user_id, Args(NoLevel, "", me.answer),
                                session, Outcome(active_sessions, "ValueError", None))
           ELSE /\ threads' = [threads EXCEPT ![t] =
                        [me EXCEPT !.pc = "load", !.prior = session, !.field = 1,
                                   !.correct = is_correct(session.user_state.current_word,
                                                          me.answer,
                                                          session.user_state.practice_mode)]]
                /\ UNCHANGED last
        /\ UNCHANGED <<active_sessions, files, verdicts>>

\* the thread reads the counter of an augmented assignment (counter += 1)
ThreadLoad(t) ==
    LET me == threads[t]
    IN  /\ me.pc = "load"
        /\ threads' = [threads EXCEPT ![t] =
                [me EXCEPT !.pc = "store",
                           !.tmp = active_sessions[me.user_id].user_state[StatFields[me.field]]]]
        /\ UNCHANGED <<active_sessions, files, last, verdicts>>

\* the thread stores the counter it read, plus one, and goes on to the next
\* statement: the two counters under "if is_correct", or the return
ThreadStore(t) ==
    LET me == threads[t]
        more == me.correct /\ me.field < Len(StatFields)
    IN  /\ me.pc = "store"
        /\ active_sessions' =
                [active_sessions EXCEPT
                    ![me.user_id].user_state[StatFields[me.field]] = me.tmp + 1]
        /\ threads' = [threads EXCEPT ![t] =
                [me EXCEPT !.pc = IF more THEN "load" ELSE "return",
                           !.field = IF more THEN @ + 1 ELSE @]]
        /\ UNCHANGED <<files, last, verdicts>>

\* the thread returns the verdict
ThreadReturn(t) ==
    LET me == threads[t]
    IN  /\ me.pc = "return"
        /\ threads' = [threads EXCEPT ![t] = Idle]
        /\ last' = Call("check_answer", me.user_id, Args(NoLevel, "", me.answer), me.prior,
                        Outcome(active_sessions, "", [bool |-> me.correct]))
        /\ verdicts' = [verdicts EXCEPT ![me.user_id] =
                            [n |-> @.n + 1, c |-> IF me.correct THEN @.c + 1 ELSE @.c]]
        /\ UNCHANGED <<active_sessions, files>>

\* the callback "mode_...": start_practice(update, user_id, level, mode)
StartPractice(user_id, hsk_level, mode, time) ==
    LET started == start_session(active_sessions, files, time, user_id, hsk_level, mode)
        choices == IF started.raised = "" /\ started.ret.vocabulary # <<>>
                   THEN 1..Len(started.ret.vocabulary) ELSE {1}
    IN  \E choice \in choices :
            LET out == start_practice(started, user_id, choice)
            IN  /\ active_sessions' = out.sessions
                /\ last' = Call("start_practice", user_id, Args(hsk_level, mode, <<>>),
                                dict_get(active_sessions, user_id), out)
                /\ verdicts' = IF out.raised = ""
                               THEN dict_set(verdicts, user_id, [n |-> 0, c |-> 0])
                               ELSE verdicts
                /\ UNCHANGED <<files, threads>>

\* a text message of the user arrives: handle_answer(update, context).  The
\* application handles one update at a time, so the handler runs to its end
\* before the next one starts.  A session takes at most MaxAttempts answers.
HandleAnswer(user_id, text) ==
    LET session == dict_get(active_sessions, user_id)
    IN  /\ session # None => session.user_state.total_attempts < MaxAttempts
        /\ \E choice \in Choices(user_id) :
            LET out == handle_answer(active_sessions, user_id, text, choice)
                graded == "check_answer" \in Range(out.ret.calls)
                         /\ "get_next_word" \in Range(out.ret.calls)
            IN  /\ active_sessions' = out.sessions
                /\ last' = Call("handle_answer", user_id, Args(NoLevel, "", text),
                                session, out)
                /\ verdicts' =
                      IF graded /\ user_id \in DOMAIN verdicts
                      THEN [verdicts EXCEPT ![user_id] =
                                [n |-> @.n + 1,
                                 c |-> IF out.ret.replies[1] = "Correct!"
                                       THEN @.c + 1 ELSE @.c]]
                      ELSE verdicts
                /\ UNCHANGED <<files, threads>>

\* the calls into the engine made for the users in users, with levels, modes,
\* clock values and answers drawn from the given sets
Engine(users, levels, modes, times, answers) ==
    \/ \E u \in users, l \in levels, m \in modes, t \in times : StartSession(u, l, m, t)
    \/ \E u \in users : GetNextWord(u)
    \/ \E u \in users, a \in answers : CheckAnswer(u, a)
    \/ \E u \in users : EndSession(u)

\* one user, every level, mode, clock value and answer, the sources rewritten
Next ==
    \/ Engine({101}, InputLevels, PracticeMode, Times, Answers)
    \/ \E l \in WritableLevels, f \in SourceVariants : WriteSource(l, f)

Spec == Init /\ [][Next]_vars

\* two users whose calls interleave in every order
NextTwoUsers ==
    Engine(Users, {1, 2, 5}, {CHARACTERS_TO_ENGLISH, ENGLISH_TO_CHARACTERS}, {0},
           {A_Return, Z_hui})

SpecTwoUsers == Init /\ [][NextTwoUsers]_vars

\* check_answer called from threads that run at the same time: the engine takes
\* no lock, so the statements of two calls interleave.  Sessions are started while
\* no call is in progress; words are drawn at any time.
NextThreads ==
    \/ \E m \in PracticeMode, t \in Times :
            (\A th \in Threads : threads[th].pc = "idle") /\ StartSession(101, 1, m, t)
    \/ GetNextWord(101)
    \/ \E t \in Threads, a \in Answers : ThreadCall(t, 101, a)
    \/ \E t \in Threads : ThreadGuard(t)
    \/ \E t \in Threads : ThreadLoad(t)
    \/ \E t \in Threads : ThreadStore(t)
    \/ \E t \in Threads : ThreadReturn(t)

SpecThreads == Init /\ [][NextThreads]_vars

\* the vocabulary store on its own: the sources of the levels in StoreLevels are
\* any of StoreSources (a level outside the range may or may not have a source),
\* and load_vocabulary is called for every level
StoreLevels == {MinLevel - 1, MinLevel, MaxLevel + 1}
StoreSources == {"two_words", "capitals", "no_pos", "header_only", "short_row",
                 "empty_field", "missing", "lowercase", "no_pos_capitals"}

InitStore ==
    /\ active_sessions = <<>>
    /\ files \in {[l \in InputLevels |-> IF l \in StoreLevels THEN f[l] ELSE InitialFiles[l]] :
                    f \in [StoreLevels -> StoreSources]}
    /\ last = Call("init", 0, NoArgs, None, Outcome(<<>>, "", None))
    /\ verdicts = <<>>
    /\ threads = [t \in Threads |-> Idle]

NextStore == \E l \in InputLevels : LoadVocabulary(l)

SpecStore == InitStore /\ [][NextStore]_vars

\* the grading on its own: the source of level 1 holds verbs and nouns, with one
\* sense and with several, with and without the infinitive marker, and a script
\* form with a capital letter; every word is drawn in every mode and every answer
\* of GradeAnswers is sent
InitGrade ==
    /\ active_sessions = <<>>
    /\ files = [InitialFiles EXCEPT ![1] = "grading"]
    /\ last = Call("init", 0, NoArgs, None, Outcome(<<>>, "", None))
    /\ verdicts = <<>>
    /\ threads = [t \in Threads |-> Idle]

NextGrade == Engine({101}, {1}, PracticeMode, {0}, GradeAnswers)

SpecGrade == InitGrade /\ [][NextGrade]_vars

\* the bot: sessions are started by start_practice, or by start_session alone as
\* the test of handle_answer does; text messages arrive at any time; sessions are
\* ended by the callback "end_session"
BotLevels == {1, 5}

NextBot ==
    \/ \E l \in BotLevels, m \in PracticeMode : StartPractice(101, l, m, 0)
    \/ \E l \in BotLevels, m \in PracticeMode : StartSession(101, l, m, 0)
    \/ \E a \in Answers : HandleAnswer(101, a)
    \/ EndSession(101)

SpecBot == Init /\ [][NextBot]_vars

----------------------------------------------------------------------------
(* Properties *)

\* the session the manager holds for user_id (None when it holds none)
SessionOf(user_id) == dict_get(active_sessions, user_id)

\* the states of the session state machine of section 4.3
AwaitingWord(session) == session # None /\ session.user_state.current_word = None
AwaitingAnswer(session) == session # None /\ session.user_state.current_word # None

\* C1: after a successful start_session(u, level, mode), whatever session u had
\* before, the manager holds for u one session with score, total_attempts and
\* correct_attempts 0, no current word, the level and mode passed and accuracy 0,
\* and its vocabulary is the list loaded by this call; it is the session returned.
C1_StartSessionResets ==
    [][(last' # last /\ last'.op = "start_session" /\ last'.raised = "") =>
        /\ last'.user_id \in DOMAIN active_sessions'
        /\ LET session == active_sessions'[last'.user_id]
               st == session.user_state
           IN  /\ st.user_id = last'.user_id
               /\ st.score = 0
               /\ st.total_attempts = 0
               /\ st.correct_attempts = 0
               /\ st.current_word = None
               /\ st.hsk_level = last'.args.hsk_level
               /\ st.practice_mode = last'.args.mode
               /\ accuracy(st) = <<0, 1>>
               /\ session.vocabulary = load_vocabulary(files, last'.args.hsk_level).words
               /\ last'.ret = session]_vars

\* C1 witness: a session that counted attempts and had a current word was replaced
C1_Witness ==
    /\ last.op = "start_session"
    /\ last.raised = ""
    /\ last.prior # None
    /\ last.prior.user_state.total_attempts > 0
    /\ last.prior.user_state.correct_attempts > 0
    /\ last.prior.user_state.current_word # None
    /\ SessionOf(last.user_id).user_state.total_attempts = 0

\* C2: check_answer raises ValueError("No active session or current word") whenever
\* the user has no session or the session has no current word.
C2_CheckAnswerNeedsWord ==
    (last.op = "check_answer" /\ ~AwaitingAnswer(last.prior)) =>
        /\ last.raised = "ValueError"
        /\ last.ret = None

\* C2 witness: check_answer right after start_session, no word drawn
C2_Witness ==
    /\ last.op = "check_answer"
    /\ last.raised = "ValueError"
    /\ AwaitingWord(last.prior)
    /\ AwaitingWord(SessionOf(last.user_id))

C5_UsersIsolated ==
    [][last' # last =>
        LET a == last'.user_id
            mine == SessionOf(a)
        IN  /\ \A b \in Users \ {a} :
                    dict_get(active_sessions', b) = dict_get(active_sessions, b)
            /\ last'.op = "start_session" /\ last'.raised = ""
                    => last'.ret.user_state.user_id = a
            /\ last'.op = "get_next_word"
                    => IF mine = None THEN last'.ret = None
                       ELSE last'.ret \in Range(mine.vocabulary) \cup {None}
            /\ last'.op = "check_answer"
                    => IF ~AwaitingAnswer(mine) THEN last'.raised = "ValueError"
                       ELSE last'.ret.bool =
                                is_correct(mine.user_state.current_word,
                                           last'.args.answer,
                                           mine.user_state.practice_mode)
            /\ last'.op = "end_session"
                    => last'.ret = IF mine = None THEN None ELSE mine.user_state]_vars

\* C5 witness: both users hold sessions that differ in level, current word and
\* counters, and the last call was an answer of the first
C5_Witness ==
    /\ DOMAIN active_sessions = Users
    /\ last.op = "check_answer"
    /\ last.user_id = 101
    /\ last.raised = ""
    /\ active_sessions[101].user_state.total_attempts = 2
    /\ active_sessions[102].user_state.total_attempts = 1
    /\ active_sessions[101].user_state.hsk_level # active_sessions[102].user_state.hsk_level
    /\ active_sessions[101].user_state.current_word
            # active_sessions[102].user_state.current_word
    /\ active_sessions[102].user_state.current_word # None

\* C7: end_session for a user with a session removes the session and returns its
\* user state with the counters as they stood; while the user has no session
\* get_next_word returns None, check_answer raises ValueError and end_session
\* returns None, none of them creating a session; only a start_session creates
\* one again, it succeeds whenever the level loads, and it starts from zero.
C7_EndSessionTerminal ==
    [][last' # last =>
        LET u == last'.user_id
            before == SessionOf(u)
            after == dict_get(active_sessions', u)
        IN  /\ (last'.op = "end_session" /\ before # None) =>
                    /\ after = None
                    /\ last'.raised = ""
                    /\ last'.ret = before.user_state
            /\ (before = None /\ last'.op = "get_next_word") =>
                    (last'.raised = "" /\ last'.ret = None /\ after = None)
            /\ (before = None /\ last'.op = "check_answer") =>
                    (last'.raised = "ValueError" /\ after = None)
            /\ (before = None /\ last'.op = "end_session") =>
                    (last'.raised = "" /\ last'.ret = None /\ after = None)
            /\ (before = None /\ last'.op = "start_session"
                    /\ load_vocabulary(files, last'.args.hsk_level).raised = "") =>
                    /\ last'.raised = ""
                    /\ after # None
                    /\ after.user_state.total_attempts = 0
                    /\ after.user_state.correct_attempts = 0
                    /\ after.user_state.score = 0
            /\ (before = None /\ after # None) =>
                    (last'.op = "start_session" /\ last'.raised = "")]_vars

\* C7 witness: a session that counted two attempts, one correct, was ended
C7_Witness ==
    /\ last.op = "end_session"
    /\ last.prior # None
    /\ last.ret # None
    /\ last.ret.total_attempts = 2
    /\ last.ret.correct_attempts = 1
    /\ SessionOf(last.user_id) = None

\* C8: get_next_word on a session with a non-empty vocabulary, with or without a
\* current word, returns an element of that vocabulary, makes it the current word
\* and changes nothing else of the session; every element of the vocabulary can be
\* drawn, the current word included.
C8_NextWordFromSnapshot ==
    /\ (last.op = "get_next_word" /\ last.prior # None /\ last.prior.vocabulary # <<>>) =>
            /\ last.raised = ""
            /\ last.ret \in Range(last.prior.vocabulary)
            /\ SessionOf(last.user_id) =
                    [last.prior EXCEPT !.user_state.current_word = last.ret]
            /\ AwaitingAnswer(SessionOf(last.user_id))
    /\ \A u \in DOMAIN active_sessions :
            \A w \in Range(active_sessions[u].vocabulary) :
                ENABLED (GetNextWord(u) /\ last'.ret = w)

\* C8 witness: with two words to draw from, the current word was drawn again
C8_Witness ==
    /\ last.op = "get_next_word"
    /\ AwaitingAnswer(last.prior)
    /\ Len(last.prior.vocabulary) = 2
    /\ last.ret = last.prior.user_state.current_word
    /\ last.prior.user_state.total_attempts = 1

\* C9: get_next_word and end_session never raise; for a user with no session each
\* returns None and leaves the session map, so every other user's session, as it was.
C9_NextAndEndNeverFail ==
    [][(last' # last /\ last'.op \in {"get_next_word", "end_session"}) =>
        /\ last'.raised = ""
        /\ SessionOf(last'.user_id) = None =>
                (last'.ret = None /\ active_sessions' = active_sessions)]_vars

\* C9 witness: end_session for a user with no session while another user is
\* waiting for an answer
C9_Witness ==
    /\ last.op = "end_session"
    /\ last.user_id = 101
    /\ last.prior = None
    /\ last.ret = None
    /\ AwaitingAnswer(SessionOf(102))
    /\ SessionOf(101) = None

\* the exception classes the engine documents (load_vocabulary: Raises)
ErrorKinds == {"ValueError", "FileNotFoundError"}

\* C10: start_session raises exactly when load_vocabulary of the level raises, an
\* exception of the same kind (ValueError for a level outside 1..6 and for missing
\* columns, FileNotFoundError for a missing source), and then returns no session.
C10_StartFailsAsLoad ==
    [][(last' # last /\ last'.op = "start_session") =>
        LET loaded == load_vocabulary(files, last'.args.hsk_level)
        IN  /\ (last'.raised = "") <=> (loaded.raised = "")
            /\ \A cls \in ErrorKinds :
                    IsInstance(last'.raised, cls) <=> IsInstance(loaded.raised, cls)
            /\ last'.raised # "" =>
                    (last'.ret = None /\ active_sessions' = active_sessions)]_vars

\* C10 witness: a start for level 7, above the range, raised a ValueError
C10_Witness ==
    /\ last.op = "start_session"
    /\ last.args.hsk_level = MaxLevel + 1
    /\ IsInstance(last.raised, "ValueError")
    /\ last.ret = None

----------------------------------------------------------------------------
(* Properties of the vocabulary store *)

\* a load_vocabulary call that has just been made, and the level it was made for
Loaded == last.op = "load_vocabulary"
LoadedLevel == last.args.hsk_level

\* the position of the column called name in the header of file, matched without
\* regard to case; 0 when the header has no such column
ColumnOf(file, name) ==
    LET hits == {i \in 1..Len(file.header) : str_lower(file.header[i]) = name}
    IN  IF hits = {} THEN 0 ELSE CHOOSE i \in hits : \A j \in hits : i <= j

\* a data row is well formed when it has a non-empty value for every required
\* column and no more fields than the header
WellFormedRow(file, row) ==
    /\ Len(row) <= Len(file.header)
    /\ \A name \in Range(required_columns) :
            /\ ColumnOf(file, name) \in 1..Len(row)
            /\ str_strip(row[ColumnOf(file, name)]) # <<>>

\* the Words of the well-formed rows of file, in source order
WellFormedWords(file, hsk_level) ==
    LET rows == SelectIn(file.rows, {r \in Range(file.rows) : WellFormedRow(file, r)})
    IN  [i \in 1..Len(rows) |->
            Word(str_strip(rows[i][ColumnOf(file, S_chinese)]),
                 str_strip(rows[i][ColumnOf(file, S_pinyin)]),
                 str_strip(rows[i][ColumnOf(file, S_english)]),
                 str_strip(rows[i][ColumnOf(file, S_part_of_speech)]),
                 hsk_level)]

\* the elements of part occur in whole, in the same order
RECURSIVE IsSubsequence(_, _)
IsSubsequence(part, whole) ==
    IF part = <<>> THEN TRUE
    ELSE IF whole = <<>> THEN FALSE
    ELSE IF Head(part) = Head(whole) THEN IsSubsequence(Tail(part), Tail(whole))
    ELSE IsSubsequence(part, Tail(whole))

\* C18: load_vocabulary for a level outside 1..6 raises the ValueError "Invalid HSK
\* level" and returns nothing, whether the directory has a source for that level
\* or not and whatever that source holds.
C18_InvalidLevelFirst ==
    (Loaded /\ LoadedLevel \notin MinLevel..MaxLevel) =>
        /\ last.raised = "ValueError"
        /\ last.ret = None
        /\ load_vocabulary(files, LoadedLevel).message = "Invalid HSK level"

\* C18 witness: a load for level 7 raised ValueError although the directory holds
\* a well-formed source for level 7
C18_Witness ==
    /\ Loaded
    /\ LoadedLevel = MaxLevel + 1
    /\ files[LoadedLevel] = "two_words"
    /\ last.raised = "ValueError"

C20_MalformedRowsSkipped ==
    (/\ Loaded
     /\ LoadedLevel \in MinLevel..MaxLevel
     /\ Source(files[LoadedLevel]).exists
     /\ \A name \in Range(required_columns) :
            ColumnOf(Source(files[LoadedLevel]), name) > 0) =>
        /\ last.raised = ""
        /\ last.ret.words = WellFormedWords(Source(files[LoadedLevel]), LoadedLevel)

\* the failures the engine can surface in the current state, each with the reason
\* the code gives for it (its message) and the class of the exception raised:
\* those of load_vocabulary for every level, and that of check_answer
SurfacedFailures ==
    {[reason |-> load_vocabulary(files, l).message,
      raised |-> load_vocabulary(files, l).raised] :
        l \in {k \in InputLevels : load_vocabulary(files, k).raised # ""}}
    \cup {[reason |-> "No active session or current word",
           raised |-> check_answer(active_sessions, u, <<>>).raised] :
            u \in {v \in Users : check_answer(active_sessions, v, <<>>).raised # ""}}

\* C11: failures that have different reasons (invalid level, source not found,
\* missing columns, no active session) raise exceptions of different classes, so
\* that the class alone tells the caller which of them happened.
C11_ErrorKindsDistinct ==
    \A f, g \in SurfacedFailures : f.reason # g.reason => f.raised # g.raised

----------------------------------------------------------------------------
(* Properties of the grading *)

\* a check_answer call that has just returned a verdict; the word it graded
\* against, the mode of the session, the answer sent and the verdict
Graded == last.op = "check_answer" /\ last.raised = ""
GradedWord == last.prior.user_state.current_word
GradedMode == last.prior.user_state.practice_mode
GradedAnswer == last.args.answer
Verdict == last.ret.bool

\* the modes in which the user writes the translation
GlossModes == {PINYIN_TO_ENGLISH, CHARACTERS_TO_ENGLISH}

\* the senses of a word: the pieces of its translation between commas, lowercased
\* and trimmed
Senses(word) ==
    {str_strip(piece) : piece \in Range(str_split_sep(str_lower(word.english), S_comma))}

\* the answer lowercased and trimmed, and the same with the words "a", "an", "the"
\* and "to" taken out
Normalized(answer) == str_strip(str_lower(answer))
WithoutMarkers(answer) ==
    LET tokens == str_split(Normalized(answer))
    IN  str_join(S_space, SelectIn(tokens, Range(tokens) \ {S_a, S_an, S_the, S_to}))

\* the answer is one of the variations of the word, as sent or without markers
Accepted(word, answer) ==
    \/ Normalized(answer) \in generate_word_variations(word)
    \/ WithoutMarkers(answer) \in generate_word_variations(word)

----------------------------------------------------------------------------
(* Properties of the session *)

\* what start_session fixes for a session
FixedAtStart(session) ==
    [vocabulary |-> session.vocabulary,
     hsk_level |-> session.user_state.hsk_level,
     practice_mode |-> session.user_state.practice_mode,
     user_id |-> session.user_state.user_id,
     start_time |-> session.start_time]

\* C17: the vocabulary, level, mode, user identifier and start time of a session
\* stay as start_session set them through every step that is not a start_session
\* or an end_session of its user: through get_next_word, check_answer and a
\* rewrite of the source of its level.
C17_SessionFixedAtStart ==
    [][\A u \in DOMAIN active_sessions :
            ~(last' # last /\ last'.user_id = u
                /\ last'.op \in {"start_session", "end_session"}) =>
                /\ u \in DOMAIN active_sessions'
                /\ FixedAtStart(active_sessions'[u]) = FixedAtStart(active_sessions[u])]_vars

\* C17 witness: an answer was graded in a session for level 1 whose vocabulary is
\* no longer what the source of level 1 holds
C17_Witness ==
    /\ Graded
    /\ AwaitingAnswer(SessionOf(101))
    /\ SessionOf(101).user_state.hsk_level = 1
    /\ load_vocabulary(files, 1).raised = ""
    /\ SessionOf(101).vocabulary # load_vocabulary(files, 1).words

----------------------------------------------------------------------------
(* Properties of the columns of a source *)

\* the source that the last load read
LoadedSource == Source(files[LoadedLevel])

\* two sources that differ at most in the letter case of their header names
SameButHeaderCase(a, b) ==
    /\ a.exists = b.exists
    /\ a.rows = b.rows
    /\ Len(a.header) = Len(b.header)
    /\ \A i \in 1..Len(a.header) : str_lower(a.header[i]) = str_lower(b.header[i])

\* what a load_vocabulary call shows its caller
LoadResult(dir, hsk_level) ==
    LET out == load_vocabulary(dir, hsk_level)
    IN  [raised |-> out.raised, message |-> out.message, words |-> out.words]

\* C21: a load for a level in 1..6 whose source exists raises the ValueError
\* "Missing required columns" exactly when the header, read without regard to
\* letter case, lacks a required column; and a source that differs from the one
\* read only in the letter case of its header names gives the same result.
C21_ColumnsWithoutCase ==
    (Loaded /\ LoadedLevel \in MinLevel..MaxLevel /\ LoadedSource.exists) =>
        /\ (\E name \in Range(required_columns) : ColumnOf(LoadedSource, name) = 0)
              <=> (/\ last.raised = "ValueError"
                   /\ LoadResult(files, LoadedLevel).message = "Missing required columns")
        /\ \A twin \in StoreSources :
              SameButHeaderCase(Source(twin), LoadedSource) =>
                  /\ LoadResult([files EXCEPT ![LoadedLevel] = twin], LoadedLevel)
                        = LoadResult(files, LoadedLevel)
                  /\ last.raised = LoadResult(files, LoadedLevel).raised
                  /\ last.raised = "" => last.ret.words = LoadResult(files, LoadedLevel).words

\* C21 witness: level 1 was loaded from the source whose header is in capitals, and
\* the Word returned is the one its lowercase twin gives
C21_Witness ==
    /\ Loaded
    /\ LoadedLevel = 1
    /\ files[1] = "capitals"
    /\ last.raised = ""
    /\ Source("lowercase") # LoadedSource
    /\ SameButHeaderCase(Source("lowercase"), LoadedSource)
    /\ last.ret.words = <<Word(Z_qu, P_qu, E_to_go, S_verb, 1)>>

\* a source with the chinese, pinyin and english columns and an index column, and
\* no part_of_speech column
ThreeColumnSource(file) ==
    /\ file.exists
    /\ \A name \in {S_n, S_chinese, S_pinyin, S_english} : ColumnOf(file, name) > 0
    /\ ColumnOf(file, S_part_of_speech) = 0

\* C22: a load from a source with the chinese, pinyin and english columns and an
\* index column, and no part_of_speech column, returns one Word per data row, and
\* a start_session for that level succeeds.
C22_ThreeColumnSourceLoads ==
    (Loaded /\ LoadedLevel \in MinLevel..MaxLevel /\ ThreeColumnSource(LoadedSource)) =>
        /\ last.raised = ""
        /\ Len(last.ret.words) = Len(LoadedSource.rows)
        /\ \A mode \in PracticeMode :
              start_session(active_sessions, files, 0, 101, LoadedLevel, mode).raised = ""

----------------------------------------------------------------------------
(* Properties of failed calls and of the counters *)

\* C23: a check_answer call that raises leaves the session map as it was: no
\* session is created, and an existing session keeps its counters, current word,
\* level, mode and vocabulary.
C23_FailedCheckChangesNothing ==
    [][(last' # last /\ last'.op = "check_answer" /\ last'.raised # "") =>
            /\ active_sessions' = active_sessions
            /\ dict_get(active_sessions', last'.user_id) = last'.prior
            /\ verdicts' = verdicts]_vars

\* C23 witness: check_answer raised for a user whose session has no current word,
\* and the session is as it was
C23_Witness ==
    /\ last.op = "check_answer" /\ last.raised = "ValueError"
    /\ AwaitingWord(last.prior)
    /\ SessionOf(last.user_id) = last.prior

\* C24: a start_session call that raises leaves the session map as it was: a
\* session the user had is still there unchanged, and none is created.
C24_FailedStartChangesNothing ==
    [][(last' # last /\ last'.op = "start_session" /\ last'.raised # "") =>
            /\ active_sessions' = active_sessions
            /\ dict_get(active_sessions', last'.user_id) = last'.prior]_vars

\* C24 witness: start_session raised for a user who holds a session with a
\* current word and a counted attempt, and the session is as it was
C24_Witness ==
    /\ last.op = "start_session" /\ last.raised # ""
    /\ AwaitingAnswer(last.prior)
    /\ last.prior.user_state.total_attempts > 0
    /\ SessionOf(last.user_id) = last.prior

\* C25: in every session 0 <= correct_attempts <= total_attempts and score =
\* correct_attempts, and the accuracy lies between 0 and 100.
C25_CountersOrdered ==
    \A u \in DOMAIN active_sessions :
        LET st == active_sessions[u].user_state
            acc == accuracy(st)
        IN  /\ 0 <= st.correct_attempts
            /\ st.correct_attempts <= st.total_attempts
            /\ st.score = st.correct_attempts
            /\ acc[2] > 0
            /\ 0 <= acc[1]
            /\ acc[1] <= 100 * acc[2]

\* C25 witness: a session with two attempts of which one was correct
C25_Witness ==
    /\ SessionOf(101) # None
    /\ SessionOf(101).user_state.total_attempts = 2
    /\ SessionOf(101).user_state.correct_attempts = 1
    /\ accuracy(SessionOf(101).user_state) = <<100, 2>>

\* C26: for every entry of the session map the user_id of the session is the key,
\* and the current word, when there is one, is an element of the vocabulary of
\* the session and has the level of the session.
C26_SessionConsistent ==
    \A u \in DOMAIN active_sessions :
        LET session == active_sessions[u]
            word == session.user_state.current_word
        IN  /\ session.user_state.user_id = u
            /\ word # None =>
                  /\ word \in Range(session.vocabulary)
                  /\ word.hsk_level = session.user_state.hsk_level

\* C26 witness: two users hold sessions for the levels 1 and 2, each with a
\* current word
C26_Witness ==
    /\ AwaitingAnswer(SessionOf(101)) /\ AwaitingAnswer(SessionOf(102))
    /\ SessionOf(101).user_state.hsk_level = 1
    /\ SessionOf(102).user_state.hsk_level = 2

C28_EmptyVocabulary ==
    [][last' # last =>
        /\ (/\ last'.op = "start_session"
            /\ UserStateValid(last'.args.hsk_level)
            /\ load_vocabulary(files, last'.args.hsk_level).raised = ""
            /\ load_vocabulary(files, last'.args.hsk_level).words = <<>>) =>
                /\ last'.raised = ""
                /\ last'.ret.vocabulary = <<>>
                /\ dict_get(active_sessions', last'.user_id) = last'.ret
        /\ (last'.prior # None /\ last'.prior.vocabulary = <<>>) =>
                /\ last'.op = "get_next_word" =>
                        /\ last'.raised = "" /\ last'.ret = None
                        /\ active_sessions' = active_sessions
                /\ last'.op = "check_answer" =>
                        /\ last'.raised = "ValueError"
                        /\ active_sessions' = active_sessions
        /\ \A u \in DOMAIN active_sessions' :
                active_sessions'[u].vocabulary = <<>> =>
                    /\ active_sessions'[u].user_state.current_word = None
                    /\ active_sessions'[u].user_state.total_attempts = 0
                    /\ active_sessions'[u].user_state.correct_attempts = 0
                    /\ active_sessions'[u].user_state.score = 0]_vars

\* C28 witness: check_answer raised in a session with an empty vocabulary after a
\* get_next_word had left it without a current word
C28_Witness ==
    /\ last.op = "check_answer" /\ last.raised = "ValueError"
    /\ last.prior # None
    /\ last.prior.vocabulary = <<>>
    /\ SessionOf(last.user_id) = last.prior
    /\ AwaitingWord(SessionOf(last.user_id))

----------------------------------------------------------------------------
(* Properties of answers without a content word *)

\* the answer is empty once trimmed, or is made of the words "a", "an", "the" and
\* "to" only
NoContent(answer) == Range(str_split(Normalized(answer))) \subseteq {S_a, S_an, S_the, S_to}

----------------------------------------------------------------------------
(* Properties of the handlers of the bot *)

=============================================================================
